---- MODULE Spec2Model ----
(***************************************************************************)
(* Tenant row / physical schema lifecycle of tenant_schemas/models.py:     *)
(* Tenant.save, Tenant.delete and Tenant.create_schema acting on one       *)
(* database connection.                                                    *)
(*                                                                         *)
(* A schema name is a sequence of one-character strings, so that the       *)
(* identifier validator is computed from the characters of the name.       *)
(* Every action is one whole call; the statements and collaborator calls   *)
(* it made are recorded, in order, in last.events.                         *)
(***************************************************************************)
EXTENDS Naturals, Sequences, FiniteSets

VARIABLES
    rows,                    \* the stored Tenant rows (public schema table)
    schemas,                 \* the physical schemas that exist in the database
    connection_schema_name,  \* connection.schema_name
    last,                    \* the call that produced this state, and its outcome
    domains,                 \* the stored Domain rows (public schema table)
    dlast,                   \* the last call on the domain routing table
    catalog,                 \* the tables, constraints and indexes in the database
    ilast,                   \* the last introspection call and what it returned
    sequences                \* the last value each primary-key sequence handed out

tenant_vars == <<rows, schemas, connection_schema_name, last>>
domain_vars == <<domains, dlast>>
catalog_vars == <<catalog, ilast>>
vars == <<tenant_vars, domain_vars, catalog_vars, sequences>>

(***************************************************************************)
(* Bounds and the universe of inputs.                                      *)
(***************************************************************************)
MaxRows == 1
MaxPk == 2

PUBLIC == <<"p", "u", "b", "l", "i", "c">>
T1 == <<"t", "1">>
T2 == <<"t", "2">>
INFORMATION_SCHEMA ==
    <<"i", "n", "f", "o", "r", "m", "a", "t", "i", "o", "n", "_",
      "s", "c", "h", "e", "m", "a">>

SchemaNames == {PUBLIC, T1, T2}
Labels == {"acme", "zeta"}

\* A Tenant instance; pk = 0 stands for pk None (never saved).
NoPk == 0
TenantOf(pk, schema_name, name, auto_create_schema, auto_drop_schema) ==
    [pk |-> pk, schema_name |-> schema_name, name |-> name,
     auto_create_schema |-> auto_create_schema,
     auto_drop_schema |-> auto_drop_schema]

NoTenant == TenantOf(NoPk, <<>>, "", FALSE, FALSE)

\* Outcomes of the migration collaborator: whether it succeeds, and whether it
\* has put the connection back on the public schema when it returns or raises.
MigOutcomes == [ok : BOOLEAN, reset : BOOLEAN]

\* Outcomes of the post_schema_sync receivers: they return, or they raise and
\* leave the connection on the schema they were working in.
HookOk == [ok |-> TRUE, ctx |-> PUBLIC]
HookOutcomes == {HookOk} \cup [ok : {FALSE}, ctx : SchemaNames]

\* The outcomes to draw for a collaborator: all of them where the call reaches
\* it, a single one where it is never called.
MigOk == [ok |-> TRUE, reset |-> TRUE]
MigChoices(called) == IF called THEN MigOutcomes ELSE {MigOk}
HookChoices(called) == IF called THEN HookOutcomes ELSE {HookOk}

(***************************************************************************)
(* Collaborators of models.py.                                             *)
(***************************************************************************)
MaxNameLen == 63

IdentifierChars ==
    {"a", "b", "c", "d", "e", "f", "g", "h", "i", "j", "k", "l", "m",
     "n", "o", "p", "q", "r", "s", "t", "u", "v", "w", "x", "y", "z",
     "0", "1", "2", "3", "4", "5", "6", "7", "8", "9", "_"}

StartsWith(s, p) == Len(s) >= Len(p) /\ SubSeq(s, 1, Len(p)) = p

get_public_schema_name == PUBLIC

ReservedNames == {get_public_schema_name, INFORMATION_SCHEMA}
ReservedPrefix == <<"p", "g", "_">>

\* TRUE when the validator accepts the name, FALSE when it raises.
_check_schema_name(name) ==
    /\ Len(name) > 0
    /\ Len(name) <= MaxNameLen
    /\ \A i \in 1..Len(name) : name[i] \in IdentifierChars
    /\ name \notin ReservedNames
    /\ ~StartsWith(name, ReservedPrefix)

(***************************************************************************)
(* The database catalog: the relations of pg_class and the declared        *)
(* constraints and indexes.  A table or column name is the sequence of its *)
(* dot-separated parts, so that 'table.column' is built and split as the   *)
(* code does it.                                                           *)
(***************************************************************************)
Name(s) == <<s>>

EmptyCatalog == [relations |-> {}, objects |-> {}]

Relation(schema, name, relkind) ==
    [schema |-> schema, name |-> name, relkind |-> relkind]

\* A declared constraint or index of a table.  ref is the referenced
\* <<table, column>> of a foreign key, <<>> otherwise.
Object(schema, table, name, type, columns, ref) ==
    [schema |-> schema, table |-> table, name |-> name, type |-> type,
     columns |-> columns, ref |-> ref]

\* The tables of the Tenant and Domain models, in the public schema.
TenantTable == Relation(PUBLIC, Name("tenant"), "r")
DomainTable == Relation(PUBLIC, Name("domain"), "r")

\* The relations the public schema holds after the shared migrations.
PublicRelations ==
    {TenantTable, DomainTable,
     Relation(PUBLIC, Name("tenant_pkey"), "i"),
     Relation(PUBLIC, Name("tenant_names"), "v"),
     Relation(PUBLIC, Name("spatial_ref_sys"), "r")}

\* The relations the tenant migrations make in a schema.
ItemRelations(s) ==
    {Relation(s, Name("item"), "r"), Relation(s, Name("item_id_seq"), "S")}

InitialCatalog == [relations |-> PublicRelations, objects |-> {}]

(***************************************************************************)
(* The world a call runs in: the database, the connection and the call's   *)
(* trace.  exc = "" while no exception is propagating.  seq is the last    *)
(* value the sequence of the Tenant table's primary key handed out.        *)
(***************************************************************************)
Event(kind, name) == [kind |-> kind, name |-> name]

World(r, s, c) ==
    [rows |-> r, schemas |-> s, conn |-> c,
     domains |-> {}, cat |-> EmptyCatalog, seq |-> 0,
     events |-> <<>>, exc |-> "", ret |-> "None"]

Emit(w, kind, name) == [w EXCEPT !.events = Append(@, Event(kind, name))]
Raise(w, exc) == [w EXCEPT !.exc = exc]

schema_exists(w, name) == name \in w.schemas

set_schema_to_public(w) == [w EXCEPT !.conn = get_public_schema_name]

\* cursor.execute('CREATE SCHEMA %s' % name): the database refuses a schema
\* that already exists.
execute_create_schema(w, name) ==
    LET w1 == Emit(w, "CREATE SCHEMA", name)
    IN  IF name \in w1.schemas
        THEN Raise(w1, "SchemaAlreadyExists")
        ELSE [w1 EXCEPT !.schemas = @ \cup {name}]

\* cursor.execute('DROP SCHEMA %s CASCADE' % name); delete() issues it only
\* for a schema that exists.  CASCADE drops every relation, constraint and
\* index of the schema; the rows of a dropped table go with it.
execute_drop_schema(w, name) ==
    LET w1 == Emit(w, "DROP SCHEMA CASCADE", name)
        cat == [relations |-> {r \in w1.cat.relations : r.schema # name},
                objects |-> {o \in w1.cat.objects : o.schema # name}]
    IN  [w1 EXCEPT !.schemas = @ \ {name},
                   !.cat = cat,
                   !.rows = IF TenantTable \in cat.relations THEN @ ELSE {},
                   !.domains = IF DomainTable \in cat.relations THEN @ ELSE {}]

\* call_command('migrate_schemas', schema_name=name): runs with the connection
\* switched to the schema, and returns or raises with the connection either
\* still on that schema or back on public.  A migration that succeeds has
\* made the tenant tables in the schema.
migrate_schemas(w, name, mig) ==
    LET w1 == Emit([w EXCEPT !.conn = IF mig.reset THEN get_public_schema_name
                                      ELSE name],
                   "migrate_schemas", name)
    IN  IF mig.ok
        THEN [w1 EXCEPT !.cat.relations = @ \cup ItemRelations(name)]
        ELSE Raise(w1, "MigrationFailure")

\* post_schema_sync.send(sender=Tenant, tenant=self): receivers that return
\* leave the database and the connection context as they found them; a
\* receiver that raises leaves the connection on the schema it had switched to.
post_schema_sync(w, name, hook) ==
    LET w1 == Emit(w, "post_schema_sync", name)
    IN  IF hook.ok THEN w1
        ELSE Raise([w1 EXCEPT !.conn = hook.ctx], "HookFailure")

\* The primary key an INSERT assigns: nextval of the sequence, which never
\* hands a value out again.
next_pk(w) == w.seq + 1

\* super(Tenant, self).save(): INSERT when pk is None, UPDATE otherwise;
\* schema_name is unique.  The INSERT takes its key from the sequence before
\* the unique constraint is checked, so a refused INSERT uses a value up.
super_save(w, self) ==
    IF TenantTable \notin w.cat.relations
    THEN Raise(w, "ProgrammingError")
    ELSE
    LET taken == \E r \in w.rows :
                     r.schema_name = self.schema_name /\ r.pk # self.pk
    IN  IF self.pk = NoPk
        THEN LET w1 == [w EXCEPT !.seq = next_pk(w)]
             IN  IF taken THEN Raise(w1, "IntegrityViolation")
                 ELSE Emit([w1 EXCEPT !.rows = @ \cup {[pk |-> w1.seq,
                                                        schema_name |-> self.schema_name,
                                                        name |-> self.name]}],
                           "INSERT", self.schema_name)
        ELSE IF taken THEN Raise(w, "IntegrityViolation")
        ELSE Emit([w EXCEPT !.rows = {r \in @ : r.pk # self.pk}
                                     \cup {[pk |-> self.pk,
                                            schema_name |-> self.schema_name,
                                            name |-> self.name]}],
                  "UPDATE", self.schema_name)

\* super(Tenant, self).delete(): collects the Domain rows that refer to the
\* tenant (ForeignKey, on_delete CASCADE) and deletes them with the row.
super_delete(w, self) ==
    IF TenantTable \notin w.cat.relations \/ DomainTable \notin w.cat.relations
    THEN Raise(w, "ProgrammingError")
    ELSE Emit([w EXCEPT !.rows = {r \in @ : r.pk # self.pk},
                        !.domains = {d \in @ : d.tenant # self.pk}],
              "DELETE", self.schema_name)

(***************************************************************************)
(* Tenant.create_schema, Tenant.delete, Tenant.save.                       *)
(***************************************************************************)
\* create_schema that returns without connection.set_schema_to_public().
create_schema_no_reset(w, self, check_if_exists, sync_schema, mig) ==
    IF ~_check_schema_name(self.schema_name)
    THEN Raise(Emit(w, "check rejected", self.schema_name), "InvalidSchemaName")
    ELSE
    LET w1 == Emit(w, "check accepted", self.schema_name)
    IN  IF check_if_exists /\ schema_exists(w1, self.schema_name)
        THEN [w1 EXCEPT !.ret = "False"]
        ELSE
        LET w2 == execute_create_schema(w1, self.schema_name)
            w3 == IF w2.exc = "" /\ sync_schema
                  THEN migrate_schemas(w2, self.schema_name, mig)
                  ELSE w2
        IN  IF w3.exc # "" THEN w3 ELSE [w3 EXCEPT !.ret = "None"]

\* create_schema that never looks whether the schema exists.
create_schema_no_short_circuit(w, self, check_if_exists, sync_schema, mig) ==
    IF ~_check_schema_name(self.schema_name)
    THEN Raise(Emit(w, "check rejected", self.schema_name), "InvalidSchemaName")
    ELSE
    LET w1 == Emit(w, "check accepted", self.schema_name)
        w2 == execute_create_schema(w1, self.schema_name)
        w3 == IF w2.exc = "" /\ sync_schema
              THEN migrate_schemas(w2, self.schema_name, mig)
              ELSE w2
    IN  IF w3.exc # "" THEN w3
        ELSE [set_schema_to_public(w3) EXCEPT !.ret = "None"]

create_schema(w, self, check_if_exists, sync_schema, mig) ==
    IF ~_check_schema_name(self.schema_name)
    THEN Raise(Emit(w, "check rejected", self.schema_name), "InvalidSchemaName")
    ELSE
    LET w1 == Emit(w, "check accepted", self.schema_name)
    IN  IF check_if_exists /\ schema_exists(w1, self.schema_name)
        THEN [w1 EXCEPT !.ret = "False"]
        ELSE
        LET w2 == execute_create_schema(w1, self.schema_name)
            w3 == IF w2.exc = "" /\ sync_schema
                  THEN migrate_schemas(w2, self.schema_name, mig)
                  ELSE w2
        IN  IF w3.exc # "" THEN w3
            ELSE [set_schema_to_public(w3) EXCEPT !.ret = "None"]

\* delete that ignores force_drop.
delete_ignores_force(w, self, force_drop) ==
    IF w.conn \notin {self.schema_name, get_public_schema_name}
    THEN Raise(w, "ContextViolation")
    ELSE
    LET w1 == IF schema_exists(w, self.schema_name) /\ self.auto_drop_schema
              THEN execute_drop_schema(w, self.schema_name)
              ELSE w
    IN  super_delete(w1, self)

\* delete without the connection context check.
delete_no_context_check(w, self, force_drop) ==
    LET w1 == IF schema_exists(w, self.schema_name)
                 /\ (self.auto_drop_schema \/ force_drop)
              THEN execute_drop_schema(w, self.schema_name)
              ELSE w
    IN  super_delete(w1, self)

\* delete that drops the schema whatever the flags say.
delete_always_drops(w, self, force_drop) ==
    IF w.conn \notin {self.schema_name, get_public_schema_name}
    THEN Raise(w, "ContextViolation")
    ELSE
    LET w1 == IF schema_exists(w, self.schema_name)
              THEN execute_drop_schema(w, self.schema_name)
              ELSE w
    IN  super_delete(w1, self)

\* delete that removes the row first and drops the schema afterwards.
delete_row_first(w, self, force_drop) ==
    IF w.conn \notin {self.schema_name, get_public_schema_name}
    THEN Raise(w, "ContextViolation")
    ELSE
    LET w1 == super_delete(w, self)
    IN  IF schema_exists(w1, self.schema_name)
           /\ (self.auto_drop_schema \/ force_drop)
        THEN execute_drop_schema(w1, self.schema_name)
        ELSE w1

delete(w, self, force_drop) ==
    IF w.conn \notin {self.schema_name, get_public_schema_name}
    THEN Raise(w, "ContextViolation")
    ELSE
    LET w1 == IF schema_exists(w, self.schema_name)
                 /\ (self.auto_drop_schema \/ force_drop)
              THEN execute_drop_schema(w, self.schema_name)
              ELSE w
    IN  super_delete(w1, self)

\* The part of save() after the context checks: super().save(), then for a
\* new tenant with auto_create_schema the schema creation and its except clause.
save_body(w, self, mig, hook) ==
    LET is_new == self.pk = NoPk
        w1 == super_save(w, self)
    IN  IF w1.exc # "" \/ ~(is_new /\ self.auto_create_schema) THEN w1
        ELSE
        LET saved == [self EXCEPT !.pk = next_pk(w)]
            w2 == create_schema(w1, saved, TRUE, TRUE, mig)
            w3 == IF w2.exc = ""
                  THEN post_schema_sync(w2, saved.schema_name, hook)
                  ELSE w2
            \* except: self.delete(force_drop=True); raise
            w4 == delete([w3 EXCEPT !.exc = ""], saved, TRUE)
        IN  IF w3.exc = "" THEN [w3 EXCEPT !.ret = "None"]
            ELSE IF w4.exc # "" THEN w4
            ELSE Raise(w4, w3.exc)

\* save without the check that a new tenant is created from the public schema.
save_no_create_check(w, self, mig, hook) ==
    LET is_new == self.pk = NoPk
    IN
    IF ~is_new /\ w.conn \notin {self.schema_name, get_public_schema_name}
    THEN Raise(w, "ContextViolation")
    ELSE save_body(w, self, mig, hook)

\* save whose update check accepts every context.
save_no_update_check(w, self, mig, hook) ==
    LET is_new == self.pk = NoPk
    IN
    IF is_new /\ w.conn # get_public_schema_name
    THEN Raise(w, "ContextViolation")
    ELSE save_body(w, self, mig, hook)

save(w, self, mig, hook) ==
    LET is_new == self.pk = NoPk
    IN
    IF is_new /\ w.conn # get_public_schema_name
    THEN Raise(w, "ContextViolation")
    ELSE IF ~is_new /\ w.conn \notin {self.schema_name, get_public_schema_name}
    THEN Raise(w, "ContextViolation")
    ELSE save_body(w, self, mig, hook)

(***************************************************************************)
(* Domain rows: Domain.save, Tenant.get_domains, Tenant.get_public,        *)
(* Tenant.get_for_domain, Tenant.add_domain, Tenant.remove_domain.         *)
(* A domain string is a sequence of characters, a character its Unicode    *)
(* code point.                                                             *)
(***************************************************************************)
MaxDomains == 2
MaxDomainPk == 3

\* str.lower(): the characters with a one-character lowercase form other than
\* themselves, as runs <<first, last, step, lowercase of first>>.
LowerRuns ==
    {<<65, 90, 1, 97>>, <<192, 214, 1, 224>>, <<216, 222, 1, 248>>,
     <<256, 302, 2, 257>>, <<306, 310, 2, 307>>, <<313, 327, 2, 314>>,
     <<330, 374, 2, 331>>, <<376, 376, 1, 255>>, <<377, 381, 2, 378>>,
     <<385, 385, 1, 595>>, <<386, 388, 2, 387>>, <<390, 390, 1, 596>>,
     <<391, 391, 1, 392>>, <<393, 394, 1, 598>>, <<395, 395, 1, 396>>,
     <<398, 398, 1, 477>>, <<399, 399, 1, 601>>, <<400, 400, 1, 603>>,
     <<401, 401, 1, 402>>, <<403, 403, 1, 608>>, <<404, 404, 1, 611>>,
     <<406, 406, 1, 617>>, <<407, 407, 1, 616>>, <<408, 408, 1, 409>>,
     <<412, 412, 1, 623>>, <<413, 413, 1, 626>>, <<415, 415, 1, 629>>,
     <<416, 420, 2, 417>>, <<422, 422, 1, 640>>, <<423, 423, 1, 424>>,
     <<425, 425, 1, 643>>, <<428, 428, 1, 429>>, <<430, 430, 1, 648>>,
     <<431, 431, 1, 432>>, <<433, 434, 1, 650>>, <<435, 437, 2, 436>>,
     <<439, 439, 1, 658>>, <<440, 440, 1, 441>>, <<444, 444, 1, 445>>,
     <<452, 452, 1, 454>>, <<453, 453, 1, 454>>, <<455, 455, 1, 457>>,
     <<456, 456, 1, 457>>, <<458, 458, 1, 460>>, <<459, 475, 2, 460>>,
     <<478, 494, 2, 479>>, <<497, 497, 1, 499>>, <<498, 500, 2, 499>>,
     <<502, 502, 1, 405>>, <<503, 503, 1, 447>>, <<504, 542, 2, 505>>,
     <<544, 544, 1, 414>>, <<546, 562, 2, 547>>, <<570, 570, 1, 11365>>,
     <<571, 571, 1, 572>>, <<573, 573, 1, 410>>, <<574, 574, 1, 11366>>,
     <<577, 577, 1, 578>>, <<579, 579, 1, 384>>, <<580, 580, 1, 649>>,
     <<581, 581, 1, 652>>, <<582, 590, 2, 583>>, <<880, 882, 2, 881>>,
     <<886, 886, 1, 887>>, <<895, 895, 1, 1011>>, <<902, 902, 1, 940>>,
     <<904, 906, 1, 941>>, <<908, 908, 1, 972>>, <<910, 911, 1, 973>>,
     <<913, 929, 1, 945>>, <<932, 939, 1, 964>>, <<975, 975, 1, 983>>,
     <<984, 1006, 2, 985>>, <<1012, 1012, 1, 952>>, <<1015, 1015, 1, 1016>>,
     <<1017, 1017, 1, 1010>>, <<1018, 1018, 1, 1019>>, <<1021, 1023, 1, 891>>,
     <<1024, 1039, 1, 1104>>, <<1040, 1071, 1, 1072>>,
     <<1120, 1152, 2, 1121>>, <<1162, 1214, 2, 1163>>,
     <<1216, 1216, 1, 1231>>, <<1217, 1229, 2, 1218>>,
     <<1232, 1326, 2, 1233>>, <<1329, 1366, 1, 1377>>,
     <<4256, 4293, 1, 11520>>, <<4295, 4295, 1, 11559>>,
     <<4301, 4301, 1, 11565>>, <<5024, 5103, 1, 43888>>,
     <<5104, 5109, 1, 5112>>, <<7312, 7354, 1, 4304>>,
     <<7357, 7359, 1, 4349>>, <<7680, 7828, 2, 7681>>, <<7838, 7838, 1, 223>>,
     <<7840, 7934, 2, 7841>>, <<7944, 7951, 1, 7936>>,
     <<7960, 7965, 1, 7952>>, <<7976, 7983, 1, 7968>>,
     <<7992, 7999, 1, 7984>>, <<8008, 8013, 1, 8000>>,
     <<8025, 8031, 2, 8017>>, <<8040, 8047, 1, 8032>>,
     <<8072, 8079, 1, 8064>>, <<8088, 8095, 1, 8080>>,
     <<8104, 8111, 1, 8096>>, <<8120, 8121, 1, 8112>>,
     <<8122, 8123, 1, 8048>>, <<8124, 8124, 1, 8115>>,
     <<8136, 8139, 1, 8050>>, <<8140, 8140, 1, 8131>>,
     <<8152, 8153, 1, 8144>>, <<8154, 8155, 1, 8054>>,
     <<8168, 8169, 1, 8160>>, <<8170, 8171, 1, 8058>>,
     <<8172, 8172, 1, 8165>>, <<8184, 8185, 1, 8056>>,
     <<8186, 8187, 1, 8060>>, <<8188, 8188, 1, 8179>>, <<8486, 8486, 1, 969>>,
     <<8490, 8490, 1, 107>>, <<8491, 8491, 1, 229>>, <<8498, 8498, 1, 8526>>,
     <<8544, 8559, 1, 8560>>, <<8579, 8579, 1, 8580>>,
     <<9398, 9423, 1, 9424>>, <<11264, 11311, 1, 11312>>,
     <<11360, 11360, 1, 11361>>, <<11362, 11362, 1, 619>>,
     <<11363, 11363, 1, 7549>>, <<11364, 11364, 1, 637>>,
     <<11367, 11371, 2, 11368>>, <<11373, 11373, 1, 593>>,
     <<11374, 11374, 1, 625>>, <<11375, 11375, 1, 592>>,
     <<11376, 11376, 1, 594>>, <<11378, 11378, 1, 11379>>,
     <<11381, 11381, 1, 11382>>, <<11390, 11391, 1, 575>>,
     <<11392, 11490, 2, 11393>>, <<11499, 11501, 2, 11500>>,
     <<11506, 11506, 1, 11507>>, <<42560, 42604, 2, 42561>>,
     <<42624, 42650, 2, 42625>>, <<42786, 42798, 2, 42787>>,
     <<42802, 42862, 2, 42803>>, <<42873, 42875, 2, 42874>>,
     <<42877, 42877, 1, 7545>>, <<42878, 42886, 2, 42879>>,
     <<42891, 42891, 1, 42892>>, <<42893, 42893, 1, 613>>,
     <<42896, 42898, 2, 42897>>, <<42902, 42920, 2, 42903>>,
     <<42922, 42922, 1, 614>>, <<42923, 42923, 1, 604>>,
     <<42924, 42924, 1, 609>>, <<42925, 42925, 1, 620>>,
     <<42926, 42926, 1, 618>>, <<42928, 42928, 1, 670>>,
     <<42929, 42929, 1, 647>>, <<42930, 42930, 1, 669>>,
     <<42931, 42931, 1, 43859>>, <<42932, 42946, 2, 42933>>,
     <<42948, 42948, 1, 42900>>, <<42949, 42949, 1, 642>>,
     <<42950, 42950, 1, 7566>>, <<42951, 42953, 2, 42952>>,
     <<42960, 42960, 1, 42961>>, <<42966, 42968, 2, 42967>>,
     <<42997, 42997, 1, 42998>>, <<65313, 65338, 1, 65345>>,
     <<66560, 66599, 1, 66600>>, <<66736, 66771, 1, 66776>>,
     <<66928, 66938, 1, 66967>>, <<66940, 66954, 1, 66979>>,
     <<66956, 66962, 1, 66995>>, <<66964, 66965, 1, 67003>>,
     <<68736, 68786, 1, 68800>>, <<71840, 71871, 1, 71872>>,
     <<93760, 93791, 1, 93792>>, <<125184, 125217, 1, 125218>>}
\* The characters whose lowercase form has several characters.
LowerExpansions ==
    {<<304, <<105, 775>>>>}
\* The characters the Final_Sigma rule skips, and the cased characters among
\* the others, as ranges <<first, last>>.
CaseIgnorableRanges ==
    {<<39, 39>>, <<46, 46>>, <<58, 58>>, <<94, 94>>, <<96, 96>>, <<168, 168>>,
     <<173, 173>>, <<175, 175>>, <<180, 180>>, <<183, 184>>, <<688, 879>>,
     <<884, 885>>, <<890, 890>>, <<900, 901>>, <<903, 903>>, <<1155, 1161>>,
     <<1369, 1369>>, <<1375, 1375>>, <<1425, 1469>>, <<1471, 1471>>,
     <<1473, 1474>>, <<1476, 1477>>, <<1479, 1479>>, <<1524, 1524>>,
     <<1536, 1541>>, <<1552, 1562>>, <<1564, 1564>>, <<1600, 1600>>,
     <<1611, 1631>>, <<1648, 1648>>, <<1750, 1757>>, <<1759, 1768>>,
     <<1770, 1773>>, <<1807, 1807>>, <<1809, 1809>>, <<1840, 1866>>,
     <<1958, 1968>>, <<2027, 2037>>, <<2042, 2042>>, <<2045, 2045>>,
     <<2070, 2093>>, <<2137, 2139>>, <<2184, 2184>>, <<2192, 2193>>,
     <<2200, 2207>>, <<2249, 2306>>, <<2362, 2362>>, <<2364, 2364>>,
     <<2369, 2376>>, <<2381, 2381>>, <<2385, 2391>>, <<2402, 2403>>,
     <<2417, 2417>>, <<2433, 2433>>, <<2492, 2492>>, <<2497, 2500>>,
     <<2509, 2509>>, <<2530, 2531>>, <<2558, 2558>>, <<2561, 2562>>,
     <<2620, 2620>>, <<2625, 2626>>, <<2631, 2632>>, <<2635, 2637>>,
     <<2641, 2641>>, <<2672, 2673>>, <<2677, 2677>>, <<2689, 2690>>,
     <<2748, 2748>>, <<2753, 2757>>, <<2759, 2760>>, <<2765, 2765>>,
     <<2786, 2787>>, <<2810, 2815>>, <<2817, 2817>>, <<2876, 2876>>,
     <<2879, 2879>>, <<2881, 2884>>, <<2893, 2893>>, <<2901, 2902>>,
     <<2914, 2915>>, <<2946, 2946>>, <<3008, 3008>>, <<3021, 3021>>,
     <<3072, 3072>>, <<3076, 3076>>, <<3132, 3132>>, <<3134, 3136>>,
     <<3142, 3144>>, <<3146, 3149>>, <<3157, 3158>>, <<3170, 3171>>,
     <<3201, 3201>>, <<3260, 3260>>, <<3263, 3263>>, <<3270, 3270>>,
     <<3276, 3277>>, <<3298, 3299>>, <<3328, 3329>>, <<3387, 3388>>,
     <<3393, 3396>>, <<3405, 3405>>, <<3426, 3427>>, <<3457, 3457>>,
     <<3530, 3530>>, <<3538, 3540>>, <<3542, 3542>>, <<3633, 3633>>,
     <<3636, 3642>>, <<3654, 3662>>, <<3761, 3761>>, <<3764, 3772>>,
     <<3782, 3782>>, <<3784, 3789>>, <<3864, 3865>>, <<3893, 3893>>,
     <<3895, 3895>>, <<3897, 3897>>, <<3953, 3966>>, <<3968, 3972>>,
     <<3974, 3975>>, <<3981, 3991>>, <<3993, 4028>>, <<4038, 4038>>,
     <<4141, 4144>>, <<4146, 4151>>, <<4153, 4154>>, <<4157, 4158>>,
     <<4184, 4185>>, <<4190, 4192>>, <<4209, 4212>>, <<4226, 4226>>,
     <<4229, 4230>>, <<4237, 4237>>, <<4253, 4253>>, <<4348, 4348>>,
     <<4957, 4959>>, <<5906, 5908>>, <<5938, 5939>>, <<5970, 5971>>,
     <<6002, 6003>>, <<6068, 6069>>, <<6071, 6077>>, <<6086, 6086>>,
     <<6089, 6099>>, <<6103, 6103>>, <<6109, 6109>>, <<6155, 6159>>,
     <<6211, 6211>>, <<6277, 6278>>, <<6313, 6313>>, <<6432, 6434>>,
     <<6439, 6440>>, <<6450, 6450>>, <<6457, 6459>>, <<6679, 6680>>,
     <<6683, 6683>>, <<6742, 6742>>, <<6744, 6750>>, <<6752, 6752>>,
     <<6754, 6754>>, <<6757, 6764>>, <<6771, 6780>>, <<6783, 6783>>,
     <<6823, 6823>>, <<6832, 6862>>, <<6912, 6915>>, <<6964, 6964>>,
     <<6966, 6970>>, <<6972, 6972>>, <<6978, 6978>>, <<7019, 7027>>,
     <<7040, 7041>>, <<7074, 7077>>, <<7080, 7081>>, <<7083, 7085>>,
     <<7142, 7142>>, <<7144, 7145>>, <<7149, 7149>>, <<7151, 7153>>,
     <<7212, 7219>>, <<7222, 7223>>, <<7288, 7293>>, <<7376, 7378>>,
     <<7380, 7392>>, <<7394, 7400>>, <<7405, 7405>>, <<7412, 7412>>,
     <<7416, 7417>>, <<7468, 7530>>, <<7544, 7544>>, <<7579, 7679>>,
     <<8125, 8125>>, <<8127, 8129>>, <<8141, 8143>>, <<8157, 8159>>,
     <<8173, 8175>>, <<8189, 8190>>, <<8203, 8207>>, <<8216, 8217>>,
     <<8228, 8228>>, <<8231, 8231>>, <<8234, 8238>>, <<8288, 8292>>,
     <<8294, 8303>>, <<8305, 8305>>, <<8319, 8319>>, <<8336, 8348>>,
     <<8400, 8432>>, <<11388, 11389>>, <<11503, 11505>>, <<11631, 11631>>,
     <<11647, 11647>>, <<11744, 11775>>, <<11823, 11823>>, <<12293, 12293>>,
     <<12330, 12333>>, <<12337, 12341>>, <<12347, 12347>>, <<12441, 12446>>,
     <<12540, 12542>>, <<40981, 40981>>, <<42232, 42237>>, <<42508, 42508>>,
     <<42607, 42610>>, <<42612, 42621>>, <<42623, 42623>>, <<42652, 42655>>,
     <<42736, 42737>>, <<42752, 42785>>, <<42864, 42864>>, <<42888, 42890>>,
     <<42994, 42996>>, <<43000, 43001>>, <<43010, 43010>>, <<43014, 43014>>,
     <<43019, 43019>>, <<43045, 43046>>, <<43052, 43052>>, <<43204, 43205>>,
     <<43232, 43249>>, <<43263, 43263>>, <<43302, 43309>>, <<43335, 43345>>,
     <<43392, 43394>>, <<43443, 43443>>, <<43446, 43449>>, <<43452, 43453>>,
     <<43471, 43471>>, <<43493, 43494>>, <<43561, 43566>>, <<43569, 43570>>,
     <<43573, 43574>>, <<43587, 43587>>, <<43596, 43596>>, <<43632, 43632>>,
     <<43644, 43644>>, <<43696, 43696>>, <<43698, 43700>>, <<43703, 43704>>,
     <<43710, 43711>>, <<43713, 43713>>, <<43741, 43741>>, <<43756, 43757>>,
     <<43763, 43764>>, <<43766, 43766>>, <<43867, 43871>>, <<43881, 43883>>,
     <<44005, 44005>>, <<44008, 44008>>, <<44013, 44013>>, <<64286, 64286>>,
     <<64434, 64450>>, <<65024, 65039>>, <<65043, 65043>>, <<65056, 65071>>,
     <<65106, 65106>>, <<65109, 65109>>, <<65279, 65279>>, <<65287, 65287>>,
     <<65294, 65294>>, <<65306, 65306>>, <<65342, 65342>>, <<65344, 65344>>,
     <<65392, 65392>>, <<65438, 65439>>, <<65507, 65507>>, <<65529, 65531>>,
     <<66045, 66045>>, <<66272, 66272>>, <<66422, 66426>>, <<67456, 67461>>,
     <<67463, 67504>>, <<67506, 67514>>, <<68097, 68099>>, <<68101, 68102>>,
     <<68108, 68111>>, <<68152, 68154>>, <<68159, 68159>>, <<68325, 68326>>,
     <<68900, 68903>>, <<69291, 69292>>, <<69446, 69456>>, <<69506, 69509>>,
     <<69633, 69633>>, <<69688, 69702>>, <<69744, 69744>>, <<69747, 69748>>,
     <<69759, 69761>>, <<69811, 69814>>, <<69817, 69818>>, <<69821, 69821>>,
     <<69826, 69826>>, <<69837, 69837>>, <<69888, 69890>>, <<69927, 69931>>,
     <<69933, 69940>>, <<70003, 70003>>, <<70016, 70017>>, <<70070, 70078>>,
     <<70089, 70092>>, <<70095, 70095>>, <<70191, 70193>>, <<70196, 70196>>,
     <<70198, 70199>>, <<70206, 70206>>, <<70367, 70367>>, <<70371, 70378>>,
     <<70400, 70401>>, <<70459, 70460>>, <<70464, 70464>>, <<70502, 70508>>,
     <<70512, 70516>>, <<70712, 70719>>, <<70722, 70724>>, <<70726, 70726>>,
     <<70750, 70750>>, <<70835, 70840>>, <<70842, 70842>>, <<70847, 70848>>,
     <<70850, 70851>>, <<71090, 71093>>, <<71100, 71101>>, <<71103, 71104>>,
     <<71132, 71133>>, <<71219, 71226>>, <<71229, 71229>>, <<71231, 71232>>,
     <<71339, 71339>>, <<71341, 71341>>, <<71344, 71349>>, <<71351, 71351>>,
     <<71453, 71455>>, <<71458, 71461>>, <<71463, 71467>>, <<71727, 71735>>,
     <<71737, 71738>>, <<71995, 71996>>, <<71998, 71998>>, <<72003, 72003>>,
     <<72148, 72151>>, <<72154, 72155>>, <<72160, 72160>>, <<72193, 72202>>,
     <<72243, 72248>>, <<72251, 72254>>, <<72263, 72263>>, <<72273, 72278>>,
     <<72281, 72283>>, <<72330, 72342>>, <<72344, 72345>>, <<72752, 72758>>,
     <<72760, 72765>>, <<72767, 72767>>, <<72850, 72871>>, <<72874, 72880>>,
     <<72882, 72883>>, <<72885, 72886>>, <<73009, 73014>>, <<73018, 73018>>,
     <<73020, 73021>>, <<73023, 73029>>, <<73031, 73031>>, <<73104, 73105>>,
     <<73109, 73109>>, <<73111, 73111>>, <<73459, 73460>>, <<78896, 78904>>,
     <<92912, 92916>>, <<92976, 92982>>, <<92992, 92995>>, <<94031, 94031>>,
     <<94095, 94111>>, <<94176, 94177>>, <<94179, 94180>>, <<110576, 110579>>,
     <<110581, 110587>>, <<110589, 110590>>, <<113821, 113822>>,
     <<113824, 113827>>, <<118528, 118573>>, <<118576, 118598>>,
     <<119143, 119145>>, <<119155, 119170>>, <<119173, 119179>>,
     <<119210, 119213>>, <<119362, 119364>>, <<121344, 121398>>,
     <<121403, 121452>>, <<121461, 121461>>, <<121476, 121476>>,
     <<121499, 121503>>, <<121505, 121519>>, <<122880, 122886>>,
     <<122888, 122904>>, <<122907, 122913>>, <<122915, 122916>>,
     <<122918, 122922>>, <<123184, 123197>>, <<123566, 123566>>,
     <<123628, 123631>>, <<125136, 125142>>, <<125252, 125259>>,
     <<127995, 127999>>, <<917505, 917505>>, <<917536, 917631>>,
     <<917760, 917999>>}
CasedRanges ==
    {<<65, 90>>, <<97, 122>>, <<170, 170>>, <<181, 181>>, <<186, 186>>,
     <<192, 214>>, <<216, 246>>, <<248, 442>>, <<444, 447>>, <<452, 659>>,
     <<661, 687>>, <<880, 883>>, <<886, 887>>, <<891, 893>>, <<895, 895>>,
     <<902, 902>>, <<904, 906>>, <<908, 908>>, <<910, 929>>, <<931, 1013>>,
     <<1015, 1153>>, <<1162, 1327>>, <<1329, 1366>>, <<1376, 1416>>,
     <<4256, 4293>>, <<4295, 4295>>, <<4301, 4301>>, <<4304, 4346>>,
     <<4349, 4351>>, <<5024, 5109>>, <<5112, 5117>>, <<7296, 7304>>,
     <<7312, 7354>>, <<7357, 7359>>, <<7424, 7467>>, <<7531, 7543>>,
     <<7545, 7578>>, <<7680, 7957>>, <<7960, 7965>>, <<7968, 8005>>,
     <<8008, 8013>>, <<8016, 8023>>, <<8025, 8025>>, <<8027, 8027>>,
     <<8029, 8029>>, <<8031, 8061>>, <<8064, 8116>>, <<8118, 8124>>,
     <<8126, 8126>>, <<8130, 8132>>, <<8134, 8140>>, <<8144, 8147>>,
     <<8150, 8155>>, <<8160, 8172>>, <<8178, 8180>>, <<8182, 8188>>,
     <<8450, 8450>>, <<8455, 8455>>, <<8458, 8467>>, <<8469, 8469>>,
     <<8473, 8477>>, <<8484, 8484>>, <<8486, 8486>>, <<8488, 8488>>,
     <<8490, 8493>>, <<8495, 8500>>, <<8505, 8505>>, <<8508, 8511>>,
     <<8517, 8521>>, <<8526, 8526>>, <<8544, 8575>>, <<8579, 8580>>,
     <<9398, 9449>>, <<11264, 11387>>, <<11390, 11492>>, <<11499, 11502>>,
     <<11506, 11507>>, <<11520, 11557>>, <<11559, 11559>>, <<11565, 11565>>,
     <<42560, 42605>>, <<42624, 42651>>, <<42786, 42863>>, <<42865, 42887>>,
     <<42891, 42894>>, <<42896, 42954>>, <<42960, 42961>>, <<42963, 42963>>,
     <<42965, 42969>>, <<42997, 42998>>, <<43002, 43002>>, <<43824, 43866>>,
     <<43872, 43880>>, <<43888, 43967>>, <<64256, 64262>>, <<64275, 64279>>,
     <<65313, 65338>>, <<65345, 65370>>, <<66560, 66639>>, <<66736, 66771>>,
     <<66776, 66811>>, <<66928, 66938>>, <<66940, 66954>>, <<66956, 66962>>,
     <<66964, 66965>>, <<66967, 66977>>, <<66979, 66993>>, <<66995, 67001>>,
     <<67003, 67004>>, <<68736, 68786>>, <<68800, 68850>>, <<71840, 71903>>,
     <<93760, 93823>>, <<119808, 119892>>, <<119894, 119964>>,
     <<119966, 119967>>, <<119970, 119970>>, <<119973, 119974>>,
     <<119977, 119980>>, <<119982, 119993>>, <<119995, 119995>>,
     <<119997, 120003>>, <<120005, 120069>>, <<120071, 120074>>,
     <<120077, 120084>>, <<120086, 120092>>, <<120094, 120121>>,
     <<120123, 120126>>, <<120128, 120132>>, <<120134, 120134>>,
     <<120138, 120144>>, <<120146, 120485>>, <<120488, 120512>>,
     <<120514, 120538>>, <<120540, 120570>>, <<120572, 120596>>,
     <<120598, 120628>>, <<120630, 120654>>, <<120656, 120686>>,
     <<120688, 120712>>, <<120714, 120744>>, <<120746, 120770>>,
     <<120772, 120779>>, <<122624, 122633>>, <<122635, 122654>>,
     <<125184, 125251>>, <<127280, 127305>>, <<127312, 127337>>,
     <<127344, 127369>>}
CAPITAL_SIGMA == 931
SMALL_SIGMA == 963
SMALL_FINAL_SIGMA == 962

\* The characters with the property Case_Ignorable, and those with the
\* property Cased.
CaseIgnorable == UNION {r[1]..r[2] : r \in CaseIgnorableRanges}
Cased == UNION {r[1]..r[2] : r \in CasedRanges}

InRun(c, r) == r[1] <= c /\ c <= r[2] /\ (c - r[1]) % r[3] = 0

\* The characters of the runs, and the lowercase form of each.
LowerCased ==
    UNION {{r[1] + k * r[3] : k \in 0..((r[2] - r[1]) \div r[3])}
           : r \in LowerRuns}

LowerMap ==
    [c \in LowerCased |->
        LET r == CHOOSE r \in LowerRuns : InRun(c, r)
        IN  <<r[4] + (c - r[1])>>]

\* The lowercase form of one character other than the capital sigma.
lower_char(c) ==
    IF c \in LowerCased THEN LowerMap[c]
    ELSE IF \E p \in LowerExpansions : p[1] = c
    THEN (CHOOSE p \in LowerExpansions : p[1] = c)[2]
    ELSE <<c>>

\* The capital sigma at position i is final when the nearest character before
\* it that is not case-ignorable is cased and the nearest one after it that
\* is not case-ignorable is not.
final_sigma(str, i) ==
    LET before == {j \in 1..(i - 1) : str[j] \notin CaseIgnorable}
        after == {j \in (i + 1)..Len(str) : str[j] \notin CaseIgnorable}
        prev == CHOOSE j \in before : \A k \in before : k <= j
        next == CHOOSE j \in after : \A k \in after : j <= k
    IN  /\ before # {}
        /\ str[prev] \in Cased
        /\ (after = {} \/ str[next] \notin Cased)

RECURSIVE lower_from(_, _)
lower_from(str, i) ==
    IF i > Len(str) THEN <<>>
    ELSE (IF str[i] = CAPITAL_SIGMA
          THEN <<IF final_sigma(str, i) THEN SMALL_FINAL_SIGMA ELSE SMALL_SIGMA>>
          ELSE lower_char(str[i]))
         \o lower_from(str, i + 1)

\* str.lower()
lower(str) == lower_from(str, 1)

\* 'a.b', 'A.b'; 'Ä.b' (lowercase 'ä.b'); 'aΣ' (lowercase 'aς')
DomainInputs ==
    {<<97, 46, 98>>, <<65, 46, 98>>, <<196, 46, 98>>, <<97, 931>>}

\* A Domain instance; pk = NoPk when it was never saved.
DomainOf(pk, tenant, domain) == [pk |-> pk, tenant |-> tenant, domain |-> domain]

\* The result of a call on the Domain table: the rows afterwards, the last
\* value its primary-key sequence handed out, the exception raised ("" for
\* none) and the value returned (a primary key).
DomainResult(ds, seq, exc, ret) ==
    [domains |-> ds, seq |-> seq, exc |-> exc, ret |-> ret]

\* The primary key an INSERT assigns: nextval of the sequence.
next_domain_pk(seq) == seq + 1

\* super(Domain, self).save() with the unique constraint dropped.
Domain_super_save_not_unique(ds, seq, self) ==
    IF self.pk = NoPk
    THEN LET pk == next_domain_pk(seq)
         IN  DomainResult(ds \cup {[self EXCEPT !.pk = pk]}, pk, "", pk)
    ELSE DomainResult({r \in ds : r.pk # self.pk} \cup {self}, seq, "", self.pk)

\* super(Domain, self).save(): INSERT when pk is None, UPDATE otherwise; the
\* domain column is unique.  A refused INSERT has used a sequence value up.
Domain_super_save(ds, seq, self) ==
    LET taken == \E r \in ds : r.domain = self.domain /\ r.pk # self.pk
    IN  IF self.pk = NoPk
        THEN LET pk == next_domain_pk(seq)
             IN  IF taken THEN DomainResult(ds, pk, "IntegrityViolation", NoPk)
                 ELSE DomainResult(ds \cup {[self EXCEPT !.pk = pk]}, pk, "", pk)
        ELSE IF taken THEN DomainResult(ds, seq, "IntegrityViolation", NoPk)
        ELSE DomainResult({r \in ds : r.pk # self.pk} \cup {self}, seq, "",
                          self.pk)

\* Domain.save that stores the domain as it was given.
Domain_save_as_given(ds, seq, self) == Domain_super_save(ds, seq, self)

Domain_save(ds, seq, self) ==
    Domain_super_save(ds, seq, [self EXCEPT !.domain = lower(@)])

\* Domain.objects.get_or_create(tenant=tenant, domain=domain): the row that
\* matches both, else a new Domain saved; when the INSERT is refused the
\* lookup is tried again and, nothing matching, the refusal is raised.
get_or_create(ds, seq, tenant, domain) ==
    IF \E r \in ds : r.tenant = tenant /\ r.domain = domain
    THEN DomainResult(ds, seq, "",
             (CHOOSE r \in ds : r.tenant = tenant /\ r.domain = domain).pk)
    ELSE Domain_save(ds, seq, DomainOf(NoPk, tenant, domain))

get_domains(ds, tenant) == {d.domain : d \in {r \in ds : r.tenant = tenant}}

get_public(rs, ds, seq) ==
    IF \E t \in rs : t.schema_name = PUBLIC
    THEN DomainResult(ds, seq, "",
                      (CHOOSE t \in rs : t.schema_name = PUBLIC).pk)
    ELSE DomainResult(ds, seq, "DoesNotExist", NoPk)

\* get_for_domain that looks the domain up as it was given.
get_for_domain_as_given(rs, ds, seq, domain) ==
    LET result == {r \in ds : r.domain = domain}
    IN  IF result # {}
        THEN DomainResult(ds, seq, "", (CHOOSE r \in result : TRUE).tenant)
        ELSE get_public(rs, ds, seq)

get_for_domain(rs, ds, seq, domain) ==
    LET result == {r \in ds : r.domain = lower(domain)}
    IN  IF result # {}
        THEN DomainResult(ds, seq, "", (CHOOSE r \in result : TRUE).tenant)
        ELSE get_public(rs, ds, seq)

add_domain(ds, seq, tenant, domain) ==
    get_or_create(ds, seq, tenant, lower(domain))

remove_domain(ds, seq, tenant, domain) ==
    DomainResult({r \in ds : ~(r.tenant = tenant /\ r.domain = lower(domain))},
                 seq, "", NoPk)

DomainCall(op, self, res) ==
    [op |-> op, self |-> self, exc |-> res.exc, ret |-> res.ret]

NoDomainCall ==
    DomainCall("init", DomainOf(NoPk, NoPk, <<>>), DomainResult({}, 0, "", NoPk))

(***************************************************************************)
(* DatabaseSchemaIntrospection (postgresql_backend/introspection.py).      *)
(* The catalog views the queries read are computed from the catalog.       *)
(***************************************************************************)
KeyTypes == {"PRIMARY KEY", "UNIQUE", "FOREIGN KEY"}
ConstraintTypes == KeyTypes \cup {"CHECK"}
\* PostgreSQL backs a primary key and a unique constraint by an index of the
\* same name.
IndexedTypes == {"PRIMARY KEY", "UNIQUE", "INDEX", "UNIQUE INDEX"}

\* information_schema.key_column_usage JOIN information_schema.table_constraints
key_column_usage(cat) ==
    UNION {{[table_schema |-> o.schema, table_name |-> o.table,
             constraint_name |-> o.name, column_name |-> o.columns[i],
             ordinal_position |-> i, constraint_type |-> o.type]
            : i \in DOMAIN o.columns}
           : o \in {x \in cat.objects : x.type \in KeyTypes}}

\* information_schema.table_constraints: one row per constraint of a table.
table_constraints(cat) ==
    {[table_schema |-> o.schema, table_name |-> o.table,
      constraint_name |-> o.name, constraint_type |-> o.type]
     : o \in {x \in cat.objects : x.type \in ConstraintTypes}}

\* information_schema.constraint_column_usage: the columns a constraint uses,
\* with the table that holds each column; for a foreign key that is the
\* referenced table and column.  The view does not tell which table declares
\* the constraint; declared_on keeps the rows of two constraints of one name
\* apart, as the view does.
constraint_column_usage(cat) ==
    UNION {IF o.type = "FOREIGN KEY"
           THEN {[table_schema |-> o.schema, table_name |-> o.ref[1],
                  column_name |-> o.ref[2], constraint_name |-> o.name,
                  declared_on |-> o.table]}
           ELSE {[table_schema |-> o.schema, table_name |-> o.table,
                  column_name |-> o.columns[i], constraint_name |-> o.name,
                  declared_on |-> o.table] : i \in DOMAIN o.columns}
           : o \in {x \in cat.objects : x.type \in ConstraintTypes}}

\* pg_index joined with pg_class: one row per index, with the schema of its
\* table (which the query does not read).
pg_index(cat) ==
    {[schema |-> o.schema, relname |-> o.table, index |-> o.name,
      columns |-> o.columns,
      indisunique |-> o.type \in {"PRIMARY KEY", "UNIQUE", "UNIQUE INDEX"},
      indisprimary |-> o.type = "PRIMARY KEY"]
     : o \in {x \in cat.objects : x.type \in IndexedTypes}}

\* The search path set_schema puts on the connection, and
\* pg_catalog.pg_table_is_visible.
search_path(schema_name) ==
    IF schema_name = get_public_schema_name
    THEN <<get_public_schema_name>>
    ELSE <<schema_name, get_public_schema_name>>

pg_table_is_visible(cat, schema_name, rel) ==
    LET path == search_path(schema_name)
    IN  \E i \in DOMAIN path :
            /\ path[i] = rel.schema
            /\ \A j \in 1..(i - 1) :
                   ~\E other \in cat.relations :
                        other.schema = path[j] /\ other.name = rel.name

ignored_tables == {Name("spatial_ref_sys")}

TableInfo(name, type) == [name |-> name, type |-> type]

\* {'r': 't', 'v': 'v'}.get(relkind)
table_type(relkind) ==
    IF relkind = "r" THEN "t" ELSE IF relkind = "v" THEN "v" ELSE "None"

get_table_list(cat, schema_name) ==
    {TableInfo(rel.name, table_type(rel.relkind)) :
        rel \in {c \in cat.relations :
                    /\ c.relkind \in {"r", "v", ""}
                    /\ c.schema = schema_name
                    /\ pg_table_is_visible(cat, schema_name, c)
                    /\ c.name \notin ignored_tables}}

NoForeignKey == <<>>

ConstraintInfo(columns, primary_key, unique, foreign_key, check, index) ==
    [columns |-> columns, primary_key |-> primary_key, unique |-> unique,
     foreign_key |-> foreign_key, check |-> check, index |-> index]

\* The sequences in which cursor.fetchall() can return the rows of a query
\* that has no ORDER BY.
RECURSIVE fetchall(_)
fetchall(result) ==
    IF result = {} THEN {<<>>}
    ELSE UNION {{<<r>> \o rest : rest \in fetchall(result \ {r})} : r \in result}

\* table_name::text || '.' || column_name::text
qualified(table_name, column_name) == table_name \o column_name

\* used_cols[0].split(".", 1)
split_first_dot(parts) == <<<<Head(parts)>>, Tail(parts)>>

\* constraints[name] = info
Put(constraints, name, info) ==
    [n \in DOMAIN constraints \cup {name} |->
        IF n = name THEN info ELSE constraints[n]]

\* The rows of constraint_column_usage that the used_cols subquery of step 1
\* reads for the foreign keys of the table: chosen by constraint name alone.
used_cols_rows(cat, schema_name, table_name) ==
    {u \in constraint_column_usage(cat) :
        \E r \in key_column_usage(cat) :
            /\ r.table_schema = schema_name
            /\ r.table_name = table_name
            /\ r.constraint_type = "FOREIGN KEY"
            /\ r.constraint_name = u.constraint_name}

\* Step 1: the key-column rows of the table in the current schema, by
\* ordinal position: one record per constraint, its columns in that order.
\* used_cols is the order in which the subquery returned its rows.
key_constraints(cat, schema_name, table_name, used_cols) ==
    LET kc == {r \in key_column_usage(cat) :
                  r.table_schema = schema_name /\ r.table_name = table_name}
        names == {r.constraint_name : r \in kc}
        of(n) == {r \in kc : r.constraint_name = n}
        kind(n) == (CHOOSE r \in of(n) : TRUE).constraint_type
        used(n) == SelectSeq(used_cols, LAMBDA u : u.constraint_name = n)
    IN  [n \in names |->
            ConstraintInfo(
                [i \in 1..Cardinality(of(n)) |->
                    (CHOOSE r \in of(n) : r.ordinal_position = i).column_name],
                kind(n) = "PRIMARY KEY",
                kind(n) \in {"PRIMARY KEY", "UNIQUE"},
                IF kind(n) = "FOREIGN KEY"
                THEN split_first_dot(qualified(used(n)[1].table_name,
                                               used(n)[1].column_name))
                ELSE NoForeignKey,
                FALSE, FALSE)]

\* The rows of the CHECK query: constraint_column_usage joined with
\* table_constraints on schema, table and constraint name, for the CHECK
\* constraints of the table in the current schema.  A column of the table
\* that a constraint of another table uses under the name of one of these
\* CHECK constraints is joined as well.
check_rows(cat, schema_name, table_name) ==
    {[constraint_name |-> kc.constraint_name, column_name |-> kc.column_name,
      declared_on |-> kc.declared_on]
     : kc \in {u \in constraint_column_usage(cat) :
                  /\ u.table_schema = schema_name
                  /\ u.table_name = table_name
                  /\ \E c \in table_constraints(cat) :
                         /\ c.table_schema = u.table_schema
                         /\ c.table_name = u.table_name
                         /\ c.constraint_name = u.constraint_name
                         /\ c.constraint_type = "CHECK"}}

\* Step 2: each fetched CHECK row appends its column to the record of its
\* constraint, which is made if there is none.
RECURSIVE with_check_constraints(_, _)
with_check_constraints(constraints, fetched) ==
    IF fetched = <<>> THEN constraints
    ELSE LET r == Head(fetched)
             made == IF r.constraint_name \in DOMAIN constraints
                     THEN constraints
                     ELSE Put(constraints, r.constraint_name,
                              ConstraintInfo(<<>>, FALSE, FALSE, NoForeignKey,
                                             TRUE, FALSE))
         IN  with_check_constraints(
                 [made EXCEPT ![r.constraint_name].columns
                                  = Append(@, r.column_name)],
                 Tail(fetched))

\* The rows of the index query: the indexes of every table with this name,
\* whatever its schema.
index_rows(cat, table_name) == {r \in pg_index(cat) : r.relname = table_name}

IndexInfo(r) ==
    ConstraintInfo(r.columns, r.indisprimary, r.indisunique, NoForeignKey,
                   FALSE, TRUE)

\* Step 3 as a merge: an index whose name is recorded adds its flags.
RECURSIVE with_indexes_merged(_, _)
with_indexes_merged(constraints, fetched) ==
    IF fetched = <<>> THEN constraints
    ELSE LET r == Head(fetched)
         IN  with_indexes_merged(
                 IF r.index \in DOMAIN constraints
                 THEN [constraints EXCEPT
                          ![r.index].index = TRUE,
                          ![r.index].primary_key = @ \/ r.indisprimary,
                          ![r.index].unique = @ \/ r.indisunique]
                 ELSE Put(constraints, r.index, IndexInfo(r)),
                 Tail(fetched))

\* Step 3: a fetched index is recorded only if its name is not recorded yet.
RECURSIVE with_indexes(_, _)
with_indexes(constraints, fetched) ==
    IF fetched = <<>> THEN constraints
    ELSE LET r == Head(fetched)
         IN  with_indexes(
                 IF r.index \in DOMAIN constraints
                 THEN constraints
                 ELSE Put(constraints, r.index, IndexInfo(r)),
                 Tail(fetched))

\* get_constraints, given the order in which each of its three queries
\* returned the rows that ORDER BY leaves unordered.
get_constraints(cat, schema_name, table_name, used_cols, checks, indexes) ==
    with_indexes(
        with_check_constraints(
            key_constraints(cat, schema_name, table_name, used_cols),
            checks),
        indexes)

IntrospectionCall(op, table_name, tables, constraints) ==
    [op |-> op, table_name |-> table_name, tables |-> tables,
     constraints |-> constraints]

NoIntrospection == IntrospectionCall("init", <<>>, {}, <<>>)

(***************************************************************************)
(* The state machine: one action per call.                                 *)
(***************************************************************************)
Here ==
    [World(rows, schemas, connection_schema_name) EXCEPT
        !.domains = domains, !.cat = catalog, !.seq = sequences.tenant]

Call(op, self, force_drop, check_if_exists, sync_schema, w) ==
    [op |-> op, self |-> self, force_drop |-> force_drop,
     check_if_exists |-> check_if_exists, sync_schema |-> sync_schema,
     exc |-> w.exc, ret |-> IF w.exc = "" THEN w.ret ELSE "raised",
     events |-> w.events]

\* The effects of a call of a Tenant method, whose handler ran once and left
\* the world w; dlast and ilast describe the
\* state only when a call on the Domain table or of the introspection made it.
Commit(w) ==
    /\ rows' = w.rows
    /\ schemas' = w.schemas
    /\ connection_schema_name' = w.conn
    /\ domains' = w.domains
    /\ catalog' = w.cat
    /\ sequences' = [sequences EXCEPT !.tenant = w.seq]
    /\ dlast' = NoDomainCall
    /\ ilast' = NoIntrospection

NoSequenceUsed == [tenant |-> 0, domain |-> 0]

Init ==
    /\ domains = {}
    /\ dlast = NoDomainCall
    /\ catalog = InitialCatalog
    /\ ilast = NoIntrospection
    /\ sequences = NoSequenceUsed
    /\ rows = {}
    /\ schemas = {PUBLIC}
    /\ connection_schema_name = get_public_schema_name
    /\ last = Call("init", NoTenant, FALSE, FALSE, FALSE, World({}, {}, PUBLIC))

\* Tenant(schema_name=n, name="acme").save() on an instance that was never
\* saved.
SaveNew ==
    \E n \in SchemaNames, l \in {"acme"}, ac \in BOOLEAN :
      \E mig \in MigChoices(ac) :
      \E hook \in HookChoices(ac /\ mig.ok) :
        LET self == TenantOf(NoPk, n, l, ac, FALSE)
        IN  \E w \in {save(Here, self, mig, hook)} :
                /\ Cardinality(w.rows) <= MaxRows
                /\ w.seq <= MaxPk
                /\ Commit(w)
                /\ last' = Call("save", self, FALSE, FALSE, FALSE, w)

\* t = Tenant.objects.get(...); t.schema_name = n; t.name = l; t.save()
SaveExisting ==
    \E r \in rows, n \in SchemaNames, l \in Labels :
        LET self == TenantOf(r.pk, n, l, TRUE, FALSE)
        IN  \E w \in {save(Here, self, MigOk, HookOk)} :
                /\ Commit(w)
                /\ last' = Call("save", self, FALSE, FALSE, FALSE, w)

\* t = Tenant.objects.get(...); t.delete(force_drop=f)
Delete ==
    \E r \in rows, ad \in BOOLEAN, f \in BOOLEAN :
        LET self == TenantOf(r.pk, r.schema_name, r.name, TRUE, ad)
        IN  \E w \in {delete(Here, self, f)} :
                /\ Commit(w)
                /\ last' = Call("delete", self, f, FALSE, FALSE, w)

\* t.create_schema(check_if_exists=c, sync_schema=s) on an instance named
\* after a tenant schema
CreateSchema ==
    \E n \in SchemaNames \ {PUBLIC}, c \in BOOLEAN, s \in BOOLEAN :
      \E mig \in MigChoices(s) :
        LET self == TenantOf(NoPk, n, "acme", TRUE, FALSE)
        IN  \E w \in {create_schema(Here, self, c, s, mig)} :
                /\ Commit(w)
                /\ last' = Call("create_schema", self, FALSE, c, s, w)

\* connection.set_schema(n)
SetSchema ==
    \E n \in SchemaNames :
        \E w \in {[Here EXCEPT !.conn = n]} :
            /\ Commit(w)
            /\ last' = Call("set_schema", NoTenant, FALSE, FALSE, FALSE, w)

\* connection.set_schema_to_public()
SetSchemaToPublic ==
    \E w \in {set_schema_to_public(Here)} :
        /\ Commit(w)
        /\ last' = Call("set_schema_to_public", NoTenant, FALSE, FALSE, FALSE, w)

Next ==
    \/ SaveNew
    \/ SaveExisting
    \/ Delete
    \/ CreateSchema
    \/ SetSchema
    \/ SetSchemaToPublic

Spec == Init /\ [][Next]_vars

(***************************************************************************)
(* The domain routing table: one action per call, on a database whose      *)
(* tenants were stored beforehand (with or without a public tenant).       *)
(***************************************************************************)
TenantsWithPublic ==
    {[pk |-> 1, schema_name |-> PUBLIC, name |-> "acme"],
     [pk |-> 2, schema_name |-> T1, name |-> "zeta"]}
TenantsWithoutPublic ==
    {[pk |-> 1, schema_name |-> T1, name |-> "acme"],
     [pk |-> 2, schema_name |-> T2, name |-> "zeta"]}

InitDomains ==
    /\ domains = {}
    /\ dlast = NoDomainCall
    /\ catalog = InitialCatalog
    /\ ilast = NoIntrospection
    /\ rows \in {TenantsWithPublic, TenantsWithoutPublic}
    /\ sequences = [tenant |-> Cardinality(rows), domain |-> 0]
    /\ schemas = {PUBLIC} \cup {t.schema_name : t \in rows}
    /\ connection_schema_name = get_public_schema_name
    /\ last = Call("init", NoTenant, FALSE, FALSE, FALSE, World({}, {}, PUBLIC))

CommitDomains(op, self, result) ==
    \E res \in {result} :
        /\ Cardinality(res.domains) <= MaxDomains
        /\ res.seq <= MaxDomainPk
        /\ domains' = res.domains
        /\ sequences' = [sequences EXCEPT !.domain = res.seq]
        /\ dlast' = DomainCall(op, self, res)
        /\ UNCHANGED <<tenant_vars, catalog_vars>>

\* tenant.add_domain(d)
AddDomain ==
    \E t \in rows, d \in DomainInputs :
        CommitDomains("add_domain", DomainOf(NoPk, t.pk, d),
                      add_domain(domains, sequences.domain, t.pk, d))

\* tenant.remove_domain(d)
RemoveDomain ==
    \E t \in rows, d \in DomainInputs :
        CommitDomains("remove_domain", DomainOf(NoPk, t.pk, d),
                      remove_domain(domains, sequences.domain, t.pk, d))

\* Domain(tenant=t, domain=d).save()
DomainSaveNew ==
    \E t \in rows, d \in DomainInputs :
        CommitDomains("Domain.save", DomainOf(NoPk, t.pk, d),
                      Domain_save(domains, sequences.domain,
                                  DomainOf(NoPk, t.pk, d)))

\* o = Domain.objects.get(pk=...); o.tenant = t; o.domain = d; o.save()
DomainSaveExisting ==
    \E o \in domains, t \in rows, d \in DomainInputs :
        CommitDomains("Domain.save", DomainOf(o.pk, t.pk, d),
                      Domain_save(domains, sequences.domain,
                                  DomainOf(o.pk, t.pk, d)))

\* Tenant.get_for_domain(d)
GetForDomain ==
    \E d \in DomainInputs :
        LET res == get_for_domain(rows, domains, sequences.domain, d)
        IN  CommitDomains("get_for_domain", DomainOf(NoPk, NoPk, d), res)

\* t = Tenant.objects.get(...); t.delete() of a tenant that keeps its schema
\* (auto_drop_schema false, force_drop false)
DeleteTenant ==
    \E r \in rows :
        LET self == TenantOf(r.pk, r.schema_name, r.name, TRUE, FALSE)
        IN  \E w \in {delete(Here, self, FALSE)} :
                /\ Commit(w)
                /\ last' = Call("delete", self, FALSE, FALSE, FALSE, w)

NextDomains ==
    \/ AddDomain
    \/ RemoveDomain
    \/ DomainSaveNew
    \/ DomainSaveExisting
    \/ GetForDomain
    \/ DeleteTenant

SpecDomains == InitDomains /\ [][NextDomains]_vars

(***************************************************************************)
(* The introspection calls, on a database where two tenant schemas may     *)
(* each hold a table "item" made by the same migrations.                   *)
(***************************************************************************)
\* What a table "item" may declare in each schema: a foreign key and an index
\* of the same names in both, the index on another column in t2 and the
\* foreign key of t2 to a table whose name has a dot; a primary key, a unique
\* constraint and a CHECK in t1 only; a unique index in t2 only.
ItemObjects(s) ==
    {Object(s, Name("item"), "item_owner_fk", "FOREIGN KEY",
            <<Name("owner_id")>>,
            IF s = T1 THEN <<Name("owner"), Name("id")>>
            ELSE <<<<"crm", "account">>, Name("id")>>),
     Object(s, Name("item"), "item_name_idx", "INDEX",
            IF s = T1 THEN <<Name("name")>> ELSE <<Name("code")>>, <<>>)}
    \cup (IF s = T1
          THEN {Object(s, Name("item"), "item_pkey", "PRIMARY KEY",
                       <<Name("id")>>, <<>>),
                Object(s, Name("item"), "item_code_name_key", "UNIQUE",
                       <<Name("code"), Name("name")>>, <<>>),
                Object(s, Name("item"), "item_qty_check", "CHECK",
                       <<Name("qty"), Name("price")>>, <<>>)}
          ELSE {Object(s, Name("item"), "item_code_uniq", "UNIQUE INDEX",
                       <<Name("code")>>, <<>>)})

\* What another table of the schema may declare: in t1 a foreign key to
\* item.id that has the name of item's CHECK constraint (constraint names are
\* unique per table only).
OtherObjects(s) ==
    IF s = T1
    THEN {Object(s, Name("other"), "item_qty_check", "FOREIGN KEY",
                 <<Name("item_id")>>, <<Name("item"), Name("id")>>)}
    ELSE {}

SchemaContents(s) ==
    {[relations |-> {}, objects |-> {}]}
    \cup {[relations |-> ItemRelations(s), objects |-> objs]
          : objs \in SUBSET (ItemObjects(s) \cup OtherObjects(s))}

Catalogs ==
    {[relations |-> PublicRelations \cup a.relations \cup b.relations,
      objects |-> a.objects \cup b.objects]
     : a \in SchemaContents(T1), b \in SchemaContents(T2)}

TableNames == {Name("item"), Name("tenant")}

InitIntrospect ==
    /\ domains = {}
    /\ dlast = NoDomainCall
    /\ sequences = NoSequenceUsed
    /\ rows = {}
    /\ schemas = {PUBLIC, T1, T2}
    /\ connection_schema_name = PUBLIC
    /\ last = Call("init", NoTenant, FALSE, FALSE, FALSE, World({}, {}, PUBLIC))
    /\ catalog \in Catalogs
    /\ ilast = NoIntrospection

\* connection.set_schema(schema_name)
IntrospectSetSchema ==
    \E n \in SchemaNames :
        /\ connection_schema_name' = n
        /\ ilast' = IntrospectionCall("set_schema", <<>>, {}, <<>>)
        /\ UNCHANGED <<rows, schemas, last, domain_vars, catalog, sequences>>

\* introspection.get_table_list(cursor)
GetTableList ==
    /\ ilast' = IntrospectionCall("get_table_list", <<>>,
                                  get_table_list(catalog, connection_schema_name),
                                  <<>>)
    /\ UNCHANGED <<tenant_vars, domain_vars, catalog, sequences>>

\* introspection.get_constraints(cursor, table_name); each query without
\* ORDER BY returns its rows in any order.
GetConstraints ==
    \E table_name \in TableNames :
      \E used_cols \in fetchall(used_cols_rows(catalog, connection_schema_name,
                                               table_name)),
         checks \in fetchall(check_rows(catalog, connection_schema_name,
                                        table_name)),
         indexes \in fetchall(index_rows(catalog, table_name)) :
        /\ ilast' = IntrospectionCall("get_constraints", table_name, {},
                                      get_constraints(catalog,
                                                      connection_schema_name,
                                                      table_name, used_cols,
                                                      checks, indexes))
        /\ UNCHANGED <<tenant_vars, domain_vars, catalog, sequences>>

NextIntrospect ==
    \/ IntrospectSetSchema
    \/ GetTableList
    \/ GetConstraints

SpecIntrospect == InitIntrospect /\ [][NextIntrospect]_vars


(***************************************************************************)
(* Reading the trace of the last call.                                     *)
(***************************************************************************)
Positions(kind) == {i \in DOMAIN last.events : last.events[i].kind = kind}
Issued(kind) == Positions(kind) # {}
DDL == Positions("CREATE SCHEMA") \cup Positions("DROP SCHEMA CASCADE")
RowStored(pk) == \E r \in rows : r.pk = pk
NameStored(name) == \E r \in rows : r.schema_name = name
IsSaveNew == last.op = "save" /\ last.self.pk = NoPk
AllowedContext(self) == {self.schema_name, get_public_schema_name}

\* save() of a new tenant in which the migration raised after CREATE SCHEMA:
\* the hook is sent right after a create_schema that returned, so a migration
\* that ran and no hook means the migration failed.
MigrationFailedInSave ==
    /\ IsSaveNew
    /\ last.exc # ""
    /\ Issued("CREATE SCHEMA")
    /\ Issued("migrate_schemas")
    /\ ~Issued("post_schema_sync")

(***************************************************************************)
(* C1: when save() of a new tenant with auto_create_schema returns without *)
(* raising, the tenant's schema exists and the connection is on the public *)
(* schema.                                                                 *)
(***************************************************************************)
C1_CreatedTenantHasSchemaAndPublicContext ==
    (IsSaveNew /\ last.self.auto_create_schema /\ last.exc = "")
        => /\ last.self.schema_name \in schemas
           /\ connection_schema_name = get_public_schema_name

\* a creation that issued CREATE SCHEMA, migrated and sent the hook
C1_Witness ==
    /\ IsSaveNew /\ last.self.auto_create_schema /\ last.exc = ""
    /\ Issued("CREATE SCHEMA") /\ Issued("migrate_schemas")
    /\ Issued("post_schema_sync")
    /\ NameStored(last.self.schema_name)

(***************************************************************************)
(* C2: when the migration fails in save() of a new tenant after CREATE     *)
(* SCHEMA was issued, then once save() has raised neither the tenant row   *)
(* nor the tenant's schema exists.                                         *)
(***************************************************************************)
C2_FailedMigrationRollsBackRowAndSchema ==
    MigrationFailedInSave
        => /\ ~NameStored(last.self.schema_name)
           /\ last.self.schema_name \notin schemas

\* the compensating delete dropped the schema and removed the row
C2_Witness ==
    /\ MigrationFailedInSave
    /\ last.exc = "MigrationFailure"
    /\ Issued("INSERT")
    /\ Issued("DROP SCHEMA CASCADE")
    /\ Issued("DELETE")

(***************************************************************************)
(* C3: create_schema leaves the connection on the public schema on every   *)
(* exit, also when the migration fails after CREATE SCHEMA; so after a     *)
(* failed creation (create_schema or the save() that called it) the        *)
(* connection is on public.  The code resets only on the normal exit.      *)
(***************************************************************************)
C3_ContextIsPublicAfterFailedMigration ==
    (/\ last.op \in {"create_schema", "save"}
     /\ Issued("CREATE SCHEMA")
     /\ Issued("migrate_schemas")
     /\ last.exc = "MigrationFailure")
        => connection_schema_name = get_public_schema_name

(***************************************************************************)
(* C4: in every call, each CREATE SCHEMA / DROP SCHEMA statement is        *)
(* preceded by a validator call that accepted the same name, and no name   *)
(* the validator rejects appears in a DDL statement.  delete() never calls *)
(* the validator.                                                          *)
(***************************************************************************)
C4_DDLOnlyAfterAcceptedValidation ==
    \A i \in DDL :
        /\ _check_schema_name(last.events[i].name)
        /\ \E j \in Positions("check accepted") :
               j < i /\ last.events[j].name = last.events[i].name

(***************************************************************************)
(* C5: save() of a never-saved tenant while the connection is not on the   *)
(* public schema raises before any mutation: no row, no CREATE SCHEMA, no  *)
(* migration, same connection context.                                     *)
(***************************************************************************)
C5_CreateOutsidePublicStep ==
    (/\ last'.op = "save"
     /\ last'.self.pk = NoPk
     /\ connection_schema_name # get_public_schema_name)
        => /\ last'.exc = "ContextViolation"
           /\ last'.events = <<>>
           /\ rows' = rows
           /\ schemas' = schemas
           /\ connection_schema_name' = connection_schema_name

C5_CreateOutsidePublicIsRejected == [][C5_CreateOutsidePublicStep]_vars

C5_Witness ==
    /\ IsSaveNew
    /\ last.exc = "ContextViolation"
    /\ connection_schema_name # get_public_schema_name
    /\ last.self.schema_name \notin schemas
    /\ last.self.auto_create_schema

(***************************************************************************)
(* C6: save() of a saved tenant while the connection is on neither the     *)
(* tenant's own schema nor public raises a context violation and leaves    *)
(* the stored rows unchanged; from the tenant's schema or from public the  *)
(* update is stored.                                                       *)
(***************************************************************************)
C6_UpdateStep ==
    (last'.op = "save" /\ last'.self.pk # NoPk)
        => IF connection_schema_name \in AllowedContext(last'.self)
           THEN \/ /\ last'.exc = ""
                   /\ [pk |-> last'.self.pk,
                       schema_name |-> last'.self.schema_name,
                       name |-> last'.self.name] \in rows'
                \/ /\ last'.exc = "IntegrityViolation"
                   /\ rows' = rows
           ELSE /\ last'.exc = "ContextViolation"
                /\ rows' = rows

C6_UpdateOnlyFromOwnOrPublicContext == [][C6_UpdateStep]_vars

\* a rejected update that would have changed the stored name
C6_Witness ==
    /\ last.op = "save" /\ last.self.pk # NoPk
    /\ last.exc = "ContextViolation"
    /\ connection_schema_name \notin AllowedContext(last.self)
    /\ \E r \in rows : r.pk = last.self.pk /\ r.name # last.self.name

(***************************************************************************)
(* C7: delete() while the connection is on neither the tenant's own schema *)
(* nor public raises before any mutation, whatever auto_drop_schema and    *)
(* force_drop are: no DROP SCHEMA, same schemas, same rows.                *)
(***************************************************************************)
C7_DeleteStep ==
    (/\ last'.op = "delete"
     /\ connection_schema_name \notin AllowedContext(last'.self))
        => /\ last'.exc = "ContextViolation"
           /\ last'.events = <<>>
           /\ rows' = rows
           /\ schemas' = schemas

C7_DeleteOutsideContextIsRejected == [][C7_DeleteStep]_vars

\* a rejected delete that asked for the drop of a schema that exists
C7_Witness ==
    /\ last.op = "delete"
    /\ last.exc = "ContextViolation"
    /\ last.force_drop /\ last.self.auto_drop_schema
    /\ last.self.schema_name \in schemas
    /\ RowStored(last.self.pk)

(***************************************************************************)
(* C8: delete() with auto_drop_schema false and force_drop false, from an  *)
(* allowed context, removes the row and issues no DROP SCHEMA: the set of  *)
(* schemas is the same before and after.                                   *)
(***************************************************************************)
C8_DeleteStep ==
    (/\ last'.op = "delete"
     /\ ~last'.self.auto_drop_schema
     /\ ~last'.force_drop
     /\ connection_schema_name \in AllowedContext(last'.self))
        => /\ last'.exc = ""
           /\ \A i \in DOMAIN last'.events :
                  last'.events[i].kind # "DROP SCHEMA CASCADE"
           /\ schemas' = schemas
           /\ \A r \in rows' : r.pk # last'.self.pk

C8_DeleteWithoutDropKeepsSchemas == [][C8_DeleteStep]_vars

\* such a delete of a tenant whose schema exists
C8_Witness ==
    /\ last.op = "delete" /\ last.exc = ""
    /\ ~last.self.auto_drop_schema /\ ~last.force_drop
    /\ last.self.schema_name \in schemas
    /\ ~RowStored(last.self.pk)

(***************************************************************************)
(* C9: in delete() from an allowed context, when the schema exists and     *)
(* (auto_drop_schema or force_drop), DROP SCHEMA <name> CASCADE is issued  *)
(* exactly once and before the row is removed; when the schema does not    *)
(* exist no DROP is issued and the row is still removed.  (The DROP of the *)
(* schema that holds the Tenant table removes the row with the table; the  *)
(* DELETE is then not issued and the call raises.)                         *)
(***************************************************************************)
C9_DeleteStep ==
    (/\ last'.op = "delete"
     /\ connection_schema_name \in AllowedContext(last'.self))
        => LET ev == last'.events
               drops == {i \in DOMAIN ev : ev[i].kind = "DROP SCHEMA CASCADE"}
               dels == {i \in DOMAIN ev : ev[i].kind = "DELETE"}
           IN  /\ Cardinality(dels) <= 1
               /\ last'.exc = "" => Cardinality(dels) = 1
               /\ \A r \in rows' : r.pk # last'.self.pk
               /\ (last'.self.schema_name \in schemas
                   /\ (last'.self.auto_drop_schema \/ last'.force_drop))
                      => /\ Cardinality(drops) = 1
                         /\ \A i \in drops :
                                /\ ev[i].name = last'.self.schema_name
                                /\ \A j \in dels : i < j
                         /\ last'.self.schema_name \notin schemas'
               /\ last'.self.schema_name \notin schemas
                      => drops = {} /\ Cardinality(dels) = 1

C9_DropOnceBeforeRowRemoval == [][C9_DeleteStep]_vars

\* a delete that dropped the schema and then removed the row
C9_Witness ==
    /\ last.op = "delete" /\ last.exc = ""
    /\ last.events = <<Event("DROP SCHEMA CASCADE", last.self.schema_name),
                       Event("DELETE", last.self.schema_name)>>
    /\ last.self.schema_name \notin schemas
    /\ ~RowStored(last.self.pk)

(***************************************************************************)
(* C10: create_schema returns true exactly when it issued CREATE SCHEMA    *)
(* for a schema that did not exist, and false otherwise.  The code returns *)
(* False on the short-circuit and falls off its end (None) after creating. *)
(***************************************************************************)
C10_ReturnsTrueIffCreated ==
    (last.op = "create_schema" /\ last.exc = "")
        => /\ last.ret \in {"True", "False"}
           /\ last.ret = "True" <=> Issued("CREATE SCHEMA")

(***************************************************************************)
(* C15: when schema creation, the migration or the post_schema_sync hook   *)
(* fails in save() of a new tenant, save() raises that original failure,   *)
(* whatever connection context the failing step left behind.  The          *)
(* compensating delete() checks the context first and may raise instead.   *)
(***************************************************************************)
OriginalFailure ==
    IF Issued("check rejected") THEN "InvalidSchemaName"
    ELSE IF Issued("post_schema_sync") THEN "HookFailure"
    ELSE IF Issued("migrate_schemas") THEN "MigrationFailure"
    ELSE "SchemaAlreadyExists"

C15_SaveRaisesOriginalFailure ==
    (/\ IsSaveNew
     /\ last.self.auto_create_schema
     /\ Issued("INSERT")
     /\ last.exc # "")
        => last.exc = OriginalFailure

(***************************************************************************)
(* C16: no call of save (create or update), delete or create_schema, also  *)
(* a failing one, leaves a stored tenant row whose schema does not exist:  *)
(* from a state where every row has a valid name and its schema, every     *)
(* call other than the creation of a tenant with auto_create_schema false  *)
(* leads to a state where every row has its schema.  An update that        *)
(* changes schema_name stores the new name and touches no schema.          *)
(***************************************************************************)
NoOrphanedRow == \A r \in rows : r.schema_name \in schemas
ValidRowNames == \A r \in rows : _check_schema_name(r.schema_name)

C16_Step ==
    (/\ NoOrphanedRow
     /\ ValidRowNames
     /\ ~(last'.op = "save" /\ last'.self.pk = NoPk
          /\ ~last'.self.auto_create_schema))
        => NoOrphanedRow'

C16_EveryRowHasItsSchema == [][C16_Step]_vars

(***************************************************************************)
(* C18: create_schema(check_if_exists=True) on a tenant whose valid-named  *)
(* schema exists short-circuits: no CREATE SCHEMA, no migration, returns   *)
(* False, and schemas, rows and connection context stay as they were.      *)
(***************************************************************************)
C18_Step ==
    (/\ last'.op = "create_schema"
     /\ last'.check_if_exists
     /\ _check_schema_name(last'.self.schema_name)
     /\ last'.self.schema_name \in schemas)
        => /\ last'.exc = ""
           /\ last'.ret = "False"
           /\ \A i \in DOMAIN last'.events :
                  last'.events[i].kind \notin {"CREATE SCHEMA", "migrate_schemas"}
           /\ schemas' = schemas
           /\ rows' = rows
           /\ connection_schema_name' = connection_schema_name

C18_ExistingSchemaShortCircuits == [][C18_Step]_vars

\* a short-circuit that was asked to migrate, on a connection that is not on
\* the public schema
C18_Witness ==
    /\ last.op = "create_schema" /\ last.check_if_exists /\ last.sync_schema
    /\ last.ret = "False"
    /\ last.self.schema_name \in schemas
    /\ connection_schema_name # get_public_schema_name
    /\ ~Issued("CREATE SCHEMA")

(***************************************************************************)
(* C19: a failed save() of a new tenant drops only a schema that this      *)
(* save() created: when the schema existed before the call, create_schema  *)
(* short-circuited and a later step failed, the schema still exists after  *)
(* save() has raised.  The except clause calls delete(force_drop=True),    *)
(* which drops whatever schema has the tenant's name.                      *)
(***************************************************************************)
C19_Step ==
    (/\ last'.op = "save"
     /\ last'.self.pk = NoPk
     /\ last'.self.schema_name \in schemas
     /\ \E i \in DOMAIN last'.events : last'.events[i].kind = "check accepted"
     /\ \A i \in DOMAIN last'.events : last'.events[i].kind # "CREATE SCHEMA"
     /\ last'.exc # "")
        => last'.self.schema_name \in schemas'

C19_FailedSaveKeepsPreexistingSchema == [][C19_Step]_vars

(***************************************************************************)
(* Reading the Domain table.                                               *)
(***************************************************************************)
Owners(domain) ==
    LET lowered == lower(domain)
    IN  {r.tenant : r \in {x \in domains : x.domain = lowered}}
PublicTenants == {t \in rows : t.schema_name = PUBLIC}
MixedCase(domain) == domain # lower(domain)

(***************************************************************************)
(* C11: after any sequence of Domain.save, add_domain and remove_domain    *)
(* calls, with inputs in any case, every stored domain is lowercase; and   *)
(* right after add_domain(d) has returned, get_domains() of that tenant    *)
(* holds lower(d).                                                         *)
(***************************************************************************)
C11_StoredDomainsAreLowercase ==
    /\ \A r \in domains : r.domain = lower(r.domain)
    /\ (dlast.op = "add_domain" /\ dlast.exc = "")
           => lower(dlast.self.domain) \in get_domains(domains, dlast.self.tenant)

\* add_domain with a mixed-case domain stored a new row
C11_Witness ==
    /\ dlast.op = "add_domain" /\ dlast.exc = ""
    /\ MixedCase(dlast.self.domain)
    /\ \E r \in domains :
           /\ r.pk = dlast.ret
           /\ r.tenant = dlast.self.tenant
           /\ r.domain = lower(dlast.self.domain)
    /\ dlast.self.domain \notin get_domains(domains, dlast.self.tenant)

(***************************************************************************)
(* C12 as claimed: get_for_domain(d) returns the owner of lower(d) when    *)
(* that domain is stored, and the tenant whose schema_name is the public   *)
(* schema name when it is not.  Without a public tenant row the lookup     *)
(* raises DoesNotExist.                                                    *)
(***************************************************************************)
C12_ReturnsOwnerOrPublic ==
    dlast.op = "get_for_domain"
        => /\ dlast.exc = ""
           /\ IF Owners(dlast.self.domain) # {}
              THEN dlast.ret \in Owners(dlast.self.domain)
              ELSE \E t \in PublicTenants : dlast.ret = t.pk

(***************************************************************************)
(* C12 amended: get_for_domain(d) returns the owner of lower(d) when that  *)
(* domain is stored, for any case of d; when it is not stored it returns   *)
(* the public tenant if a tenant row with the public schema name exists,   *)
(* and raises DoesNotExist if none exists.                                 *)
(***************************************************************************)
C12_ReturnsOwnerOrPublicIfStored ==
    dlast.op = "get_for_domain"
        => IF Owners(dlast.self.domain) # {}
           THEN dlast.exc = "" /\ dlast.ret \in Owners(dlast.self.domain)
           ELSE IF PublicTenants # {}
           THEN dlast.exc = "" /\ \E t \in PublicTenants : dlast.ret = t.pk
           ELSE dlast.exc = "DoesNotExist"

\* a mixed-case lookup answered with an owner that is not the public tenant
C12_Witness ==
    /\ dlast.op = "get_for_domain" /\ dlast.exc = ""
    /\ MixedCase(dlast.self.domain)
    /\ dlast.ret \in Owners(dlast.self.domain)
    /\ PublicTenants # {}
    /\ \A t \in PublicTenants : dlast.ret # t.pk

(***************************************************************************)
(* C17: after any sequence of add_domain, Domain.save and remove_domain    *)
(* calls no two stored Domain rows are equal up to case; add_domain of a   *)
(* domain that another tenant owns fails and leaves the rows as they were; *)
(* add_domain of a domain the tenant owns adds no row.                     *)
(***************************************************************************)
\* No two rows have the same lowercase form: there are as many forms as rows.
DomainsUniqueUpToCase ==
    Cardinality({lower(r.domain) : r \in domains}) = Cardinality(domains)

C17_Step ==
    /\ DomainsUniqueUpToCase'
    /\ dlast'.op = "add_domain"
           => LET owners == Owners(dlast'.self.domain)
              IN  /\ (owners # {} /\ dlast'.self.tenant \notin owners)
                         => /\ dlast'.exc = "IntegrityViolation"
                            /\ domains' = domains
                  /\ dlast'.self.tenant \in owners
                         => /\ dlast'.exc = ""
                            /\ domains' = domains

C17_DomainsHaveOneOwner == [][C17_Step]_vars

\* add_domain refused for a domain, given in another case, that the other
\* tenant owns
C17_Witness ==
    /\ dlast.op = "add_domain"
    /\ dlast.exc = "IntegrityViolation"
    /\ MixedCase(dlast.self.domain)
    /\ Owners(dlast.self.domain) # {}
    /\ dlast.self.tenant \notin Owners(dlast.self.domain)

(***************************************************************************)
(* Claims about introspection.                                             *)
(***************************************************************************)
\* The declared constraints and indexes of the introspected table in the
\* connection's current schema.
OwnObjects ==
    {o \in catalog.objects :
        o.schema = connection_schema_name /\ o.table = ilast.table_name}

OwnConstraints == {o \in OwnObjects : o.type \in ConstraintTypes}

\* The indexes of tables with the introspected name, in any schema.
NamedIndexes ==
    {o \in catalog.objects :
        o.table = ilast.table_name /\ o.type \in IndexedTypes}

Elements(columns) == {columns[i] : i \in DOMAIN columns}

\* The foreign keys that other tables of the schema declare on columns of
\* the table of o under the name of o: the CHECK query joins their columns to
\* a CHECK constraint o.
SameNameUses(o) ==
    {x \in catalog.objects :
        /\ x.schema = o.schema /\ x.name = o.name /\ x.table # o.table
        /\ x.type = "FOREIGN KEY" /\ x.ref[1] = o.table}

\* The columns of a constraint as get_constraints reports them: in ordinal
\* order for a key; for a CHECK its columns and those of the table that a
\* foreign key of the same name refers to, in any order.
ReportsColumnsOf(columns, o) ==
    IF o.type = "CHECK"
    THEN /\ Len(columns) = Len(o.columns) + Cardinality(SameNameUses(o))
         /\ Elements(columns)
                = Elements(o.columns) \cup {x.ref[2] : x \in SameNameUses(o)}
    ELSE columns = o.columns

\* C13 (as stated): when an index has the name of a constraint recorded by an
\* earlier step, the one entry of that name carries the union of the flags of
\* both, so a primary key or unique constraint backed by an index of the same
\* name is reported with index true.
C13_CollidingNamesUniteFlags ==
    ilast.op = "get_constraints" =>
        \A o \in OwnConstraints :
            (\E x \in NamedIndexes : x.name = o.name) =>
                /\ o.name \in DOMAIN ilast.constraints
                /\ ilast.constraints[o.name].index
                /\ ilast.constraints[o.name].primary_key = (o.type = "PRIMARY KEY")
                /\ ilast.constraints[o.name].unique
                /\ ~ilast.constraints[o.name].check

\* C13 (amended): the result has one entry per name.  A constraint recorded
\* by the key-column or CHECK step keeps the columns and flags of that step
\* when an index has the same name: index stays false and primary_key, unique
\* and check are those of the constraint.  An index whose name no earlier
\* step recorded is entered with index true and the flags of an index of
\* that name.
C13_FirstRecordedEntryWins ==
    ilast.op = "get_constraints" =>
        /\ \A o \in OwnConstraints :
               /\ o.name \in DOMAIN ilast.constraints
               /\ ReportsColumnsOf(ilast.constraints[o.name].columns, o)
               /\ ilast.constraints[o.name].primary_key = (o.type = "PRIMARY KEY")
               /\ ilast.constraints[o.name].unique
                      = (o.type \in {"PRIMARY KEY", "UNIQUE"})
               /\ ilast.constraints[o.name].check = (o.type = "CHECK")
               /\ ~ilast.constraints[o.name].index
        /\ \A n \in DOMAIN ilast.constraints :
               (~\E o \in OwnConstraints : o.name = n) =>
                   \E x \in NamedIndexes :
                       /\ x.name = n
                       /\ ilast.constraints[n]
                              = ConstraintInfo(
                                    x.columns,
                                    x.type = "PRIMARY KEY",
                                    x.type \in {"PRIMARY KEY", "UNIQUE",
                                                "UNIQUE INDEX"},
                                    NoForeignKey, FALSE, TRUE)

\* get_constraints returned a primary key whose backing index has the same
\* name, next to an index that no constraint has the name of.
C13_Witness ==
    /\ ilast.op = "get_constraints"
    /\ \E o \in OwnConstraints :
           /\ o.type = "PRIMARY KEY"
           /\ o.name \in DOMAIN ilast.constraints
           /\ ~ilast.constraints[o.name].index
    /\ \E o \in OwnObjects :
           /\ o.type = "INDEX"
           /\ o.name \in DOMAIN ilast.constraints
           /\ ilast.constraints[o.name].index

\* C14: every table get_table_list returns is a relation of the connection's
\* current schema, and every entry get_constraints returns is a constraint or
\* an index the introspected table has in that schema, with that object's
\* columns and, for a foreign key, that object's referenced table.column:
\* nothing of a table of the same name in another schema appears.
C14_ResultsBelongToCurrentSchema ==
    /\ ilast.op = "get_table_list" =>
           \A t \in ilast.tables :
               \E rel \in catalog.relations :
                   rel.schema = connection_schema_name /\ rel.name = t.name
    /\ ilast.op = "get_constraints" =>
           \A n \in DOMAIN ilast.constraints :
               \E o \in OwnObjects :
                   /\ o.name = n
                   /\ ReportsColumnsOf(ilast.constraints[n].columns, o)
                   /\ (ilast.constraints[n].foreign_key = NoForeignKey)
                          = (o.ref = <<>>)
                   /\ o.ref # <<>> =>
                          qualified(ilast.constraints[n].foreign_key[1],
                                    ilast.constraints[n].foreign_key[2])
                              = qualified(o.ref[1], o.ref[2])

====
